---- MODULE Spec2Model ----
(***************************************************************************)
(* Model of the two programs of the repository:                            *)
(*   src/app.py            the HTTP service (POST /parse, POST /parse/file) *)
(*   src/runpod/handler.py the serverless job handler (handler(job))       *)
(* A behaviour is a run of one of the two processes (variable program).    *)
(* Byte counts are scaled: one unit stands for one MiB.                    *)
(***************************************************************************)
EXTENDS Integers, Sequences, FiniteSets, TLC

(***************************************************************************)
(* Bounds of the model                                                     *)
(***************************************************************************)
NumReqs == 2         \* HTTP requests of one run
NumCallers == 3      \* threads calling get_pipeline() in SpecGetPipeline
MaxStream == 4       \* largest upload stream / remote response, in units
MaxPages == 2        \* longest result sequence in SpecNormalize

(***************************************************************************)
(* Program constants (scaled to units of one MiB)                          *)
(***************************************************************************)
MAX_FILE_SIZE_BYTES == 3
chunk_size == 2

None == <<"#None">>    \* Python's None where a text may stand

(***************************************************************************)
(* File names and paths are sequences of one-character strings.            *)
(***************************************************************************)
LowerChar(c) ==
  CASE c = "P" -> "p"
    [] c = "D" -> "d"
    [] c = "F" -> "f"
    [] c = "N" -> "n"
    [] c = "G" -> "g"
    [] OTHER -> c

\* str.lower()
Lower(s) == [i \in 1..Len(s) |-> LowerChar(s[i])]

\* str.rfind(c) + 1: the last position of c in s, 0 when absent
RFind(s, c) ==
  LET hits == {i \in 1..Len(s) : s[i] = c}
  IN  IF hits = {} THEN 0 ELSE CHOOSE i \in hits : \A j \in hits : j <= i

\* os.path.splitext(p)[1]: the text from the last dot of the last path
\* component, unless that component has nothing but dots before it
Splitext(p) ==
  LET sep == RFind(p, "/")
      dot == RFind(p, ".")
  IN  IF dot > sep /\ \E i \in (sep + 1)..(dot - 1) : p[i] # "."
      THEN SubSeq(p, dot, Len(p))
      ELSE << >>

\* str.lstrip(".")
RECURSIVE LStripDots(_)
LStripDots(s) ==
  IF s # << >> /\ Head(s) = "." THEN LStripDots(Tail(s)) ELSE s

\* pathlib.PurePath(filename).suffix: the last component's text from its
\* last dot, when that dot is neither its first nor its last character
PathSuffix(filename) ==
  LET sep  == RFind(filename, "/")
      name == SubSeq(filename, sep + 1, Len(filename))
      dot  == RFind(name, ".")
  IN  IF 1 < dot /\ dot < Len(name) THEN SubSeq(name, dot, Len(name)) ELSE << >>

get_file_extension(filename) == LStripDots(Lower(PathSuffix(filename)))

\* the names the model draws file names, URL paths and queries from
NoName    == << >>
A_pdf     == <<"a", ".", "p", "d", "f">>
A_PNG     == <<"a", ".", "P", "N", "G">>
A_txt     == <<"a", ".", "t", "x", "t">>
A_noext   == <<"a">>
Dot_pdf   == <<".", "p", "d", "f">>
D_txt_a   == <<"d", ".", "t", "x", "t", "/", "a">>

(***************************************************************************)
(* State                                                                   *)
(***************************************************************************)
VARIABLES
  program,      \* "app" (src/app.py) or "handler" (src/runpod/handler.py)
  pipeline,     \* app.py: the global _pipeline; 0 is None, n > 0 the n-th handle
  constructed,  \* app.py: number of PaddleOCRVL handles constructed so far
  req,          \* app.py: the HTTP requests, each a coroutine on the event loop
  caller,       \* app.py: threads inside get_pipeline() (SpecGetPipeline)
  job,          \* handler.py: the job given to handler(job)
  hpc,          \* handler.py: position of handler(job)
  loop,         \* handler.py: what asyncio.get_event_loop() finds
  tmp,          \* handler.py: the job's temporary directory and its files
  hist,         \* handler.py: what the job has done so far
  ret           \* handler.py: what handler(job) returned or raised

vars == <<program, pipeline, constructed, req, caller, job, hpc, loop, tmp, hist, ret>>

appVars == <<pipeline, constructed, req>>
handlerVars == <<job, hpc, loop, tmp, hist, ret>>

Reqs == 1..NumReqs
Callers == 1..NumCallers

(***************************************************************************)
(* app.py: result normalisation                                            *)
(***************************************************************************)
\* res.markdown of one page: falsy (None or an empty mapping), a mapping
\* with the two text fields (None when the key is absent), or a string
MdFalsy == [kind |-> "falsy", markdown_texts |-> None, markdown_text |-> None]
MdDict(t, u) == [kind |-> "dict", markdown_texts |-> t, markdown_text |-> u]
MdStr(s) == [kind |-> "str", markdown_texts |-> s, markdown_text |-> None]

\* "\n\n".join(parts); strings are sequences of characters
RECURSIVE Join(_)
Join(parts) ==
  IF parts = << >> THEN << >>
  ELSE IF Len(parts) = 1 THEN parts[1]
  ELSE parts[1] \o <<"\n", "\n">> \o Join(Tail(parts))

\* filter(None, parts)
RECURSIVE FilterNonEmpty(_)
FilterNonEmpty(parts) ==
  IF parts = << >> THEN << >>
  ELSE IF Head(parts) = << >> THEN FilterNonEmpty(Tail(parts))
  ELSE <<Head(parts)>> \o FilterNonEmpty(Tail(parts))

Truthy(t) == t # None /\ t # << >>

\* md_info.get("markdown_texts") or md_info.get("markdown_text") or ""
DictTextMutFirstName(md) ==
  IF Truthy(md.markdown_texts) THEN md.markdown_texts ELSE << >>

DictText(md) ==
  IF Truthy(md.markdown_texts) THEN md.markdown_texts
  ELSE IF Truthy(md.markdown_text) THEN md.markdown_text
  ELSE << >>

\* the text_parts of the manual merge, lines 102-113
RECURSIVE TextParts(_)
TextParts(markdown_list) ==
  IF markdown_list = << >> THEN << >>
  ELSE LET md == Head(markdown_list)
           rest == TextParts(Tail(markdown_list))
       IN  IF md.kind = "dict"
           THEN (IF DictText(md) # << >> THEN <<DictText(md)>> \o rest ELSE rest)
           ELSE <<md.markdown_texts>> \o rest

\* the loop of lines 82-86 over the first n pages
RECURSIVE MarkdownList(_, _)
MarkdownList(pages, n) ==
  IF n = 0 THEN << >>
  ELSE LET init == MarkdownList(pages, n - 1)
       IN  IF pages[n].kind # "falsy" THEN Append(init, pages[n]) ELSE init

\* a text no str.join accepts (a truthy value that is not a string)
BadText == <<"#notstr">>

HasBadText(parts) == \E i \in 1..Len(parts) : parts[i] = BadText

\* A result of pipeline.predict is [pages, fail, once, primary]:
\*   pages    the page results it holds
\*   fail     0, or k > 0 when iterating it raises after k - 1 pages
\*   once     a result whose iteration raises is either a one-shot iterator,
\*            which is exhausted by the raise and yields nothing when
\*            iterated again (TRUE), or raises again each time (FALSE)
\*   primary  what pipeline.concatenate_markdown_pages does with its
\*            markdown list: raises, or returns a text

\* line 91, the result when nothing was collected
NoMarkdown(result) == [markdown |-> << >>, pages |-> 0]

\* lines 115-117, the result when the manual merge raises
MergeFailed(result) == [markdown |-> << >>, pages |-> 0]

\* _extract_markdown_from_result_sync(pipeline, result) -> (markdown, pages)
extract_markdown(result, primary) ==
  LET markdown_list == MarkdownList(result.pages, Len(result.pages))
  IN  IF result.fail > 0 THEN [markdown |-> << >>, pages |-> 0]
      ELSE IF markdown_list = << >> THEN NoMarkdown(result)
      ELSE IF ~primary.raises
           THEN [markdown |-> primary.text, pages |-> Len(result.pages)]
      ELSE IF HasBadText(TextParts(markdown_list))
           THEN MergeFailed(result)
      ELSE [markdown |-> Join(FilterNonEmpty(TextParts(markdown_list))),
            pages |-> Len(result.pages)]

\* _convert_result_sync(result), which iterates the result a second time: the
\* number of records of the output, one per page; -1 when the iteration raises
convert_result(result) ==
  IF result.fail > 0 THEN (IF result.once THEN 0 ELSE -1) ELSE Len(result.pages)

(***************************************************************************)
(* app.py: the requests                                                    *)
(***************************************************************************)
allowed_extensionsMutTxt ==
  {<<".", "p", "d", "f">>, <<".", "j", "p", "g">>, <<".", "j", "p", "e", "g">>,
   <<".", "p", "n", "g">>, <<".", "b", "m", "p">>, <<".", "t", "x", "t">>}

allowed_extensions ==
  {<<".", "p", "d", "f">>, <<".", "j", "p", "g">>, <<".", "j", "p", "e", "g">>,
   <<".", "p", "n", "g">>, <<".", "b", "m", "p">>}

\* the file names of the uploads and the input strings of POST /parse
UploadNames == {NoName, A_PNG, A_txt, A_noext, Dot_pdf}
ParseInputs == {NoName, A_pdf}

\* what pipeline.concatenate_markdown_pages can do
PrimaryRaises == [raises |-> TRUE, text |-> << >>]
PrimaryMerges == [raises |-> FALSE, text |-> <<"M">>]
Primaries == {PrimaryRaises, PrimaryMerges}

PageA == MdDict(<<"A">>, None)
PageB == MdDict(None, <<"B">>)

\* the page results of SpecNormalize, by what res.markdown is: empty, a
\* mapping with a text under one name, under both, with an empty text or with
\* a value that is no string, or a string
NormPages ==
  {MdFalsy, PageA, PageB, MdDict(<<"A">>, <<"B">>), MdDict(<< >>, None),
   MdDict(BadText, None), MdStr(<<"S">>)}

SeqsUpTo(S, n) == UNION {[1..k -> S] : k \in 0..n}

\* res.markdown of the page holds a text: a string, or a mapping with a
\* non-empty string under markdown_texts or markdown_text
Extractable(page) ==
  \/ page.kind = "str"
  \/ page.kind = "dict" /\ DictText(page) \notin {<< >>, BadText}

\* the results pipeline.predict returns in SpecNormalize; the engine merges
\* a markdown list into a text only when one of its pages holds a text
NormResults ==
  {x \in [pages : SeqsUpTo(NormPages, MaxPages), fail : 0..MaxPages,
          once : BOOLEAN, primary : Primaries] :
     /\ x.fail <= Len(x.pages)
     /\ x.fail = 0 => ~x.once
     /\ ~x.primary.raises => \E i \in 1..Len(x.pages) : Extractable(x.pages[i])}

\* the results pipeline.predict returns in the requests
HttpResults ==
  {[pages |-> << >>, fail |-> 0, once |-> FALSE, primary |-> PrimaryRaises],
   [pages |-> <<PageA, PageB>>, fail |-> 0, once |-> FALSE, primary |-> PrimaryRaises],
   [pages |-> <<PageA, PageB>>, fail |-> 0, once |-> FALSE, primary |-> PrimaryMerges],
   [pages |-> <<PageA, PageB>>, fail |-> 2, once |-> FALSE, primary |-> PrimaryRaises]}
NoResult == [pages |-> << >>, fail |-> -1, once |-> FALSE, primary |-> PrimaryRaises]

\* a response: shape "success" is the success mapping, "detail" the
\* rendering of a raised HTTPException, "envelope" the JSONResponse of line 286
NoResp == [code |-> 0, shape |-> "none", msg |-> "", markdown |-> << >>, pages |-> 0, result |-> 0]
HTTPException(status_code, detail) ==
  [code |-> status_code, shape |-> "detail", msg |-> detail, markdown |-> << >>, pages |-> 0, result |-> 0]
JSONResponse(status_code, message) ==
  [code |-> status_code, shape |-> "envelope", msg |-> message, markdown |-> << >>, pages |-> 0, result |-> 0]
Success(markdown, pages, output) ==
  [code |-> 200, shape |-> "success", msg |-> "", markdown |-> markdown, pages |-> pages, result |-> output]

NewReq ==
  [kind |-> "none", pc |-> "new", name |-> NoName, size |-> 0,
   total |-> 0, written |-> 0, read |-> FALSE, dir |-> "none",
   gets |-> 0, predicts |-> 0, handle |-> 0, result |-> NoResult, resp |-> NoResp]

\* requests are taken in the order of their numbers
\* the positions at which the coroutine of a request is suspended in an await
\* (await file.read, await asyncio.to_thread) and the event loop runs others
AwaitsMutBlockingPredict == {"writing", "written", "normalize"}

Awaits == {"writing", "written", "predict", "normalize"}

\* the event loop can run request r: no other coroutine holds its thread
Turn(r) ==
  /\ program = "app"
  /\ \A q \in Reqs \ {r} : req[q].pc \in {"new", "done"} \cup Awaits

Arrives(r) ==
  /\ Turn(r)
  /\ req[r].pc = "new"
  /\ \A q \in Reqs : q < r => req[q].pc # "new"

Finish(r, resp, dir) ==
  req' = [req EXCEPT ![r].pc = "done", ![r].resp = resp, ![r].dir = dir]

\* the total after one more chunk may be written (line 152)
WithinLimitMutLate(total_written, max_size_bytes) == total_written <= max_size_bytes + chunk_size

WithinLimit(total_written, max_size_bytes) == total_written <= max_size_bytes

\* parse_file, lines 237-252 and the opening of the file at line 146: the
\* checks of the file name and the creation of the temporary directory;
\* size is the length of the stream the accepted upload will be read from
ParseFileStart(r) ==
  /\ Arrives(r)
  /\ \E name \in UploadNames :
       LET file_extension == Lower(Splitext(name))
           q == [req[r] EXCEPT !.kind = "parse_file", !.name = name]
       IN  IF name = NoName
           THEN req' = [req EXCEPT ![r] =
                  [q EXCEPT !.pc = "done",
                            !.resp = HTTPException(400, "Filename cannot be empty")]]
           ELSE IF file_extension \notin allowed_extensions
           THEN req' = [req EXCEPT ![r] =
                  [q EXCEPT !.pc = "done",
                            !.resp = HTTPException(400, "Unsupported file format")]]
           ELSE \E size \in 0..MaxStream :
                  req' = [req EXCEPT ![r] =
                    [q EXCEPT !.pc = "writing", !.dir = "live", !.size = size]]
  /\ UNCHANGED <<program, pipeline, constructed, caller>>
  /\ UNCHANGED handlerVars

\* _write_upload_file, lines 147-157: one turn of the loop with a chunk of
\* n > 0 bytes; over the limit, HTTPException(413) leaves both with-blocks
WriteUploadChunk(r) ==
  /\ Turn(r)
  /\ req[r].pc = "writing"
  /\ \E n \in 1..chunk_size :
       /\ n <= req[r].size - req[r].total
       /\ LET total_written == req[r].total + n
              q == [req[r] EXCEPT !.total = total_written, !.read = TRUE]
          IN  IF ~WithinLimit(total_written, MAX_FILE_SIZE_BYTES)
              THEN req' = [req EXCEPT ![r] =
                     [q EXCEPT !.pc = "done", !.dir = "removed",
                               !.resp = HTTPException(413, "File too large")]]
              ELSE req' = [req EXCEPT ![r] = [q EXCEPT !.written = @ + n]]
  /\ UNCHANGED <<program, pipeline, constructed, caller>>
  /\ UNCHANGED handlerVars

\* _write_upload_file, lines 148-150 and 158: the read at the end of the
\* stream returns no bytes, the loop ends and the file is closed
WriteUploadEnd(r) ==
  /\ Turn(r)
  /\ req[r].pc = "writing"
  /\ req[r].total = req[r].size
  /\ req' = [req EXCEPT ![r].pc = "written", ![r].read = TRUE]
  /\ UNCHANGED <<program, pipeline, constructed, caller>>
  /\ UNCHANGED handlerVars

\* line 56: if _pipeline is None
IsNoneMutAlways(p) == TRUE

IsNone(p) == p = 0

\* get_pipeline() called on the event loop, lines 53-73, then the start of
\* pipeline.predict in a worker thread; the constructor returns or raises
GetPipelineAndPredict(r, q, onError) ==
  \/ /\ ~IsNone(pipeline)
     /\ req' = [req EXCEPT ![r] =
          [q EXCEPT !.pc = "predict", !.gets = @ + 1, !.predicts = @ + 1,
                    !.handle = pipeline]]
     /\ UNCHANGED <<pipeline, constructed>>
  \/ /\ IsNone(pipeline)
     /\ pipeline' = constructed + 1
     /\ constructed' = constructed + 1
     /\ req' = [req EXCEPT ![r] =
          [q EXCEPT !.pc = "predict", !.gets = @ + 1, !.predicts = @ + 1,
                    !.handle = constructed + 1]]
  \/ /\ IsNone(pipeline)
     /\ req' = [req EXCEPT ![r] =
          [q EXCEPT !.pc = "done", !.gets = @ + 1, !.resp = onError,
                    !.dir = IF q.dir = "live" THEN "removed" ELSE q.dir]]
     /\ UNCHANGED <<pipeline, constructed>>

\* line 255
IsEmptyMutNever(file_size) == file_size < 0

IsEmpty(file_size) == file_size = 0

\* parse_file, lines 253-266: the size check, get_pipeline() and the start
\* of pipeline.predict
ParseFileCheck(r) ==
  /\ Turn(r)
  /\ req[r].pc = "written"
  /\ IF IsEmpty(req[r].total)
     THEN /\ Finish(r, HTTPException(400, "File is empty"), "removed")
          /\ UNCHANGED <<pipeline, constructed>>
     ELSE GetPipelineAndPredict(r, req[r], JSONResponse(500, "exception"))
  /\ UNCHANGED <<program, caller>>
  /\ UNCHANGED handlerVars

\* parse_document, lines 199-205
ParseDocumentStart(r) ==
  /\ Arrives(r)
  /\ \E input \in ParseInputs :
       GetPipelineAndPredict(r, [req[r] EXCEPT !.kind = "parse", !.name = input],
                             HTTPException(500, "exception"))
  /\ UNCHANGED <<program, caller>>
  /\ UNCHANGED handlerVars

\* the failure of a request after its pipeline call began: lines 218-220 of
\* parse_document, lines 283-289 of parse_file
FailedMutBadRequest(r) ==
  IF req[r].kind = "parse"
  THEN Finish(r, HTTPException(400, "exception"), req[r].dir)
  ELSE Finish(r, JSONResponse(400, "exception"), "removed")

FailedMutKeepDir(r) ==
  IF req[r].kind = "parse"
  THEN Finish(r, HTTPException(500, "exception"), req[r].dir)
  ELSE Finish(r, JSONResponse(500, "exception"), req[r].dir)

Failed(r) ==
  IF req[r].kind = "parse"
  THEN Finish(r, HTTPException(500, "exception"), req[r].dir)
  ELSE Finish(r, JSONResponse(500, "exception"), "removed")

\* pipeline.predict returns one of results to the waiting request, or raises
PredictReturnsFrom(r, results) ==
  /\ Turn(r)
  /\ req[r].pc = "predict"
  /\ \/ \E result \in results :
          req' = [req EXCEPT ![r].pc = "normalize", ![r].result = result]
     \/ Failed(r)
  /\ UNCHANGED <<program, pipeline, constructed, caller>>
  /\ UNCHANGED handlerVars

PredictReturns(r) == PredictReturnsFrom(r, HttpResults)

PredictReturnsAny(r) == PredictReturnsFrom(r, NormResults)

\* lines 207-216 of parse_document, lines 268-279 of parse_file
Normalize(r) ==
  /\ Turn(r)
  /\ req[r].pc = "normalize"
  /\ LET md == extract_markdown(req[r].result, req[r].result.primary)
         output == convert_result(req[r].result)
     IN  IF output < 0
         THEN Failed(r)
         ELSE Finish(r, Success(md.markdown, md.pages, output),
                     IF req[r].kind = "parse" THEN req[r].dir ELSE "removed")
  /\ UNCHANGED <<program, pipeline, constructed, caller>>
  /\ UNCHANGED handlerVars

(***************************************************************************)
(* app.py: get_pipeline() entered by several threads at once               *)
(***************************************************************************)
NewCaller == [pc |-> "idle", got |-> 0]

\* line 56: the test of the global
GpCheck(t) ==
  /\ caller[t].pc = "idle"
  /\ caller' = [caller EXCEPT ![t].pc = IF pipeline = 0 THEN "construct" ELSE "return"]
  /\ UNCHANGED <<program, pipeline, constructed, req>>
  /\ UNCHANGED handlerVars

\* lines 60-71: the constructor returns a new handle, which is stored in the
\* global, or it raises
GpConstruct(t) ==
  /\ caller[t].pc = "construct"
  /\ \/ /\ constructed' = constructed + 1
        /\ pipeline' = constructed + 1
        /\ caller' = [caller EXCEPT ![t].pc = "return"]
     \/ /\ caller' = [caller EXCEPT ![t].pc = "raised"]
        /\ UNCHANGED <<pipeline, constructed>>
  /\ UNCHANGED <<program, req>>
  /\ UNCHANGED handlerVars

\* line 73: the global is read again and returned
GpReturn(t) ==
  /\ caller[t].pc = "return"
  /\ caller' = [caller EXCEPT ![t].pc = "done", ![t].got = pipeline]
  /\ UNCHANGED <<program, pipeline, constructed, req>>
  /\ UNCHANGED handlerVars

(***************************************************************************)
(* handler.py                                                              *)
(***************************************************************************)
pdf_suffixes == {<<"p", "d", "f">>}
image_suffixes ==
  {<<"p", "n", "g">>, <<"j", "p", "e", "g">>, <<"j", "p", "2">>, <<"w", "e", "b", "p">>,
   <<"g", "i", "f">>, <<"b", "m", "p">>, <<"j", "p", "g">>}

SUPPORTED_EXTENSIONS == pdf_suffixes \cup image_suffixes

valid_backends ==
  {"pipeline", "vlm-auto-engine", "vlm-http-client", "hybrid-auto-engine", "hybrid-http-client"}
valid_methods == {"auto", "txt", "ocr"}
valid_formats == {"markdown", "json", "content_list"}

\* a key the job's input mapping does not have
Absent == "#absent"

\* job_input.get(key, default)
Get(value, default) == IF value = Absent THEN default ELSE value

\* the values the jobs of the model carry
JobBase64 == {Absent, "", "good", "bad"}
NoUrl == [path |-> None, query |-> None]
JobUrls ==
  {NoUrl, [path |-> <<"/">> \o A_PNG, query |-> A_txt],
   [path |-> <<"/">> \o A_txt, query |-> NoName]}
JobNames == {None, A_txt, D_txt_a}
JobBackends == {Absent, "pipeline", "vlm-auto-engine", "bogus"}
JobMethods == {Absent, "txt", "bogus"}
JobFormats == {Absent, "json", "content_list", "bogus"}

NoJob ==
  [input |-> "mapping", file_base64 |-> Absent, file_url |-> NoUrl, file_name |-> None,
   backend |-> Absent, method |-> Absent, return_format |-> Absent]

\* input is "none" for a job whose "input" is None instead of a mapping
Jobs ==
  {[NoJob EXCEPT !.input = "none"]} \cup
  [input : {"mapping"}, file_base64 : JobBase64, file_url : JobUrls, file_name : JobNames,
   backend : JobBackends, method : JobMethods, return_format : JobFormats]

\* a value of the input mapping is falsy: the key is absent or its text empty
Falsy(v) == v = Absent \/ v = ""

\* validate_input(job_input) -> the error message, "" when the input is valid
validate_inputMutNoFormat(j) ==
  IF Falsy(j.file_base64) /\ j.file_url = NoUrl
  THEN "Missing required parameter: file_base64 or file_url"
  ELSE IF Get(j.backend, "hybrid-auto-engine") \notin valid_backends
  THEN "Invalid backend"
  ELSE IF Get(j.method, "auto") \notin valid_methods
  THEN "Invalid method"
  ELSE ""

validate_input(j) ==
  IF Falsy(j.file_base64) /\ j.file_url = NoUrl
  THEN "Missing required parameter: file_base64 or file_url"
  ELSE IF Get(j.backend, "hybrid-auto-engine") \notin valid_backends
  THEN "Invalid backend"
  ELSE IF Get(j.method, "auto") \notin valid_methods
  THEN "Invalid method"
  ELSE IF Get(j.return_format, "markdown") \notin valid_formats
  THEN "Invalid return_format"
  ELSE ""

\* lines 162-167: the extension of the job's file
OrPdf(ext) == IF ext = << >> THEN <<"p", "d", "f">> ELSE ext

ResolveExt(j) ==
  IF j.file_url # NoUrl
  THEN OrPdf(get_file_extension(j.file_url.path))
  ELSE OrPdf(get_file_extension(IF j.file_name = None THEN <<"i", "n", "p", "u", "t">> \o <<".", "p", "d", "f">> ELSE j.file_name))

\* get_result_dir(output_dir, pdf_name, backend, parse_method): the name of
\* the directory under output_dir/pdf_name; of the valid backends, the two
\* sets are those that start with "hybrid" and with "vlm"
HybridBackends == {"hybrid-auto-engine", "hybrid-http-client"}
VlmBackends == {"vlm-auto-engine", "vlm-http-client"}

get_result_dirMutNoHybrid(backend, parse_method) ==
  IF backend \in VlmBackends THEN <<"vlm">> ELSE <<parse_method>>

get_result_dir(backend, parse_method) ==
  IF backend \in HybridBackends THEN <<"hybrid_", parse_method>>
  ELSE IF backend \in VlmBackends THEN <<"vlm">>
  ELSE <<parse_method>>

\* the suffix of the artifact of a return_format, lines 230-249
SuffixOf(return_format) ==
  CASE return_format = "markdown" -> ".md"
    [] return_format = "json" -> "_middle.json"
    [] return_format = "content_list" -> "_content_list.json"

FailureOf(return_format) ==
  CASE return_format = "markdown" -> "Failed to generate markdown output"
    [] return_format = "json" -> "Failed to generate JSON output"
    [] return_format = "content_list" -> "Failed to generate content list output"

Suffixes == {".md", "_middle.json", "_content_list.json"}

\* the state of a file: missing, or its text; Undecodable is a file whose
\* bytes are no UTF-8 text
Missing == "#missing"
Undecodable == "#undecodable"
Texts == {"", "T"}
FileStates == {Missing, Undecodable} \cup Texts

\* read_result_file(result_dir, pdf_name, suffix) on the files the engine
\* left in directory out.d: None (Missing) when there is no such file
read_result_file(out, result_dir, suffix) ==
  IF out.d = result_dir THEN out.files[suffix] ELSE Missing

NoOut == [d |-> << >>, files |-> [x \in Suffixes |-> Missing]]
NoTmp == [dir |-> "none", output |-> FALSE, input |-> -1, out |-> NoOut]
NoHist == [runs |-> 0, mkdtemps |-> 0, fetches |-> 0, decodes |-> 0, calls |-> 0,
           fallback |-> FALSE]

\* what handler(job) gave back: a mapping (status Absent when it has no
\* status key), or an exception
NoRet == [kind |-> "none", status |-> Absent, error |-> Absent, content |-> Absent,
          format |-> Absent, backend |-> Absent]
Raised(e) == [NoRet EXCEPT !.kind = "raised", !.error = e]
ValidationError(msg) == [NoRet EXCEPT !.kind = "returned", !.status = "error", !.error = msg]
UnsupportedError == [NoRet EXCEPT !.kind = "returned", !.error = "Unsupported file type"]
ExceptionResult(j) ==
  [NoRet EXCEPT !.kind = "returned", !.status = "error", !.error = "exception",
                !.backend = Get(j.backend, "hybrid-auto-engine")]

\* the event loops handler() can find: "ok" runs the coroutine; with "none"
\* get_event_loop or run_until_complete raises RuntimeError before the
\* coroutine starts and asyncio.run runs it; with "running" both raise
Loops == {"ok", "none", "running"}

\* handler, lines 280-289: the input is read and validated
HandlerCalled ==
  /\ program = "handler"
  /\ hpc = "start"
  /\ \E j \in Jobs, l \in Loops :
       /\ job' = j
       /\ loop' = l
       /\ IF j.input = "none"
          THEN hpc' = "done" /\ ret' = Raised("AttributeError")
          ELSE IF validate_input(j) # ""
          THEN hpc' = "done" /\ ret' = ValidationError(validate_input(j))
          ELSE hpc' = "run" /\ ret' = ret
  /\ UNCHANGED <<program, caller, tmp, hist>>
  /\ UNCHANGED appVars

\* handler, line 294: the exceptions of the first attempt that are caught
CaughtMutException(e) == TRUE

Caught(e) == e = "RuntimeError"

\* handler, lines 292-296: process_file is run on the current event loop or,
\* after a RuntimeError, by asyncio.run; hist.fallback records that the
\* except clause was entered
RunProcessFile ==
  /\ program = "handler"
  /\ hpc = "run"
  /\ IF loop = "ok"
     THEN hpc' = "mkdtemp" /\ ret' = ret /\ hist' = [hist EXCEPT !.runs = @ + 1]
     ELSE IF loop = "none" /\ Caught("RuntimeError")
     THEN /\ hpc' = "mkdtemp"
          /\ ret' = ret
          /\ hist' = [hist EXCEPT !.runs = @ + 1, !.fallback = TRUE]
     ELSE hpc' = "done" /\ ret' = Raised("RuntimeError") /\ hist' = hist
  /\ UNCHANGED <<program, caller, job, loop, tmp>>
  /\ UNCHANGED appVars

\* exception e leaves process_file with history h: the first attempt falls
\* back to asyncio.run(process_file(job_input)) when the handler catches e,
\* anything else leaves handler
Escapes(e, h) ==
  IF ~h.fallback /\ Caught(e)
  THEN /\ hpc' = "mkdtemp"
       /\ ret' = ret
       /\ hist' = [h EXCEPT !.runs = @ + 1, !.fallback = TRUE]
  ELSE /\ hpc' = "done"
       /\ ret' = Raised(e)
       /\ hist' = h

\* process_file, lines 143-158: the temporary directory and its output
\* sub-directory are made, outside the try block
MakeTempDir ==
  /\ program = "handler"
  /\ hpc = "mkdtemp"
  /\ \/ /\ Escapes("OSError", hist)
        /\ tmp' = tmp
     \/ /\ Escapes("OSError", [hist EXCEPT !.mkdtemps = @ + 1])
        /\ tmp' = [tmp EXCEPT !.dir = "live"]
     \/ /\ hpc' = "acquire"
        /\ tmp' = [tmp EXCEPT !.dir = "live", !.output = TRUE]
        /\ hist' = [hist EXCEPT !.mkdtemps = @ + 1]
        /\ ret' = ret
  /\ UNCHANGED <<program, caller, job, loop>>
  /\ UNCHANGED appVars

\* the sizes of the decoded and downloaded files
FileSizes == {0, MAX_FILE_SIZE_BYTES, MaxStream}

\* the finally block, lines 268-271
Cleaned == [tmp EXCEPT !.dir = "removed", !.output = FALSE, !.input = -1, !.out = NoOut]

\* process_file returns result r through the finally block
Return(r) ==
  /\ hpc' = "done"
  /\ ret' = r
  /\ tmp' = Cleaned

\* process_file, lines 160-184: the extension is resolved and checked, then
\* the file is decoded or downloaded into the temporary directory
AcquireFile ==
  /\ program = "handler"
  /\ hpc = "acquire"
  /\ LET ext == ResolveExt(job)
     IN  IF ext \notin SUPPORTED_EXTENSIONS
         THEN Return(UnsupportedError) /\ hist' = hist
         ELSE IF ~Falsy(job.file_base64)
         THEN /\ hist' = [hist EXCEPT !.decodes = @ + 1]
              /\ IF job.file_base64 = "bad"
                 THEN Return(ExceptionResult(job))
                 ELSE /\ \E n \in FileSizes : tmp' = [tmp EXCEPT !.input = n]
                      /\ hpc' = "read"
                      /\ ret' = ret
         ELSE /\ hist' = [hist EXCEPT !.fetches = @ + 1]
              /\ \/ Return(ExceptionResult(job))
                 \/ /\ \E n \in FileSizes : tmp' = [tmp EXCEPT !.input = n]
                    /\ hpc' = "read"
                    /\ ret' = ret
  /\ UNCHANGED <<program, caller, job, loop>>
  /\ UNCHANGED appVars

\* process_file, lines 186-216: read_fn reads the file and aio_do_parse is
\* called
ReadAndParse ==
  /\ program = "handler"
  /\ hpc = "read"
  /\ \/ Return(ExceptionResult(job)) /\ hist' = hist
     \/ /\ hpc' = "parse"
        /\ hist' = [hist EXCEPT !.calls = @ + 1]
        /\ UNCHANGED <<ret, tmp>>
  /\ UNCHANGED <<program, caller, job, loop>>
  /\ UNCHANGED appVars

\* process_file, lines 218-258: the artifact of the requested format is read
CollectResult(j, out) ==
  LET backend == Get(j.backend, "hybrid-auto-engine")
      return_format == Get(j.return_format, "markdown")
      content == read_result_file(out, get_result_dir(backend, Get(j.method, "auto")),
                                  SuffixOf(return_format))
  IN  IF content = Undecodable THEN ExceptionResult(j)
      ELSE IF content # Missing /\ content # ""
      THEN [NoRet EXCEPT !.kind = "returned", !.status = "success", !.content = content,
                         !.format = return_format, !.backend = backend]
      ELSE [NoRet EXCEPT !.kind = "returned", !.status = "error",
                         !.error = FailureOf(return_format), !.backend = backend]

\* the directories aio_do_parse can leave its files in
ParseDirs(parse_method) == {<<"hybrid_", parse_method>>, <<"vlm">>, <<parse_method>>}

\* process_file, lines 198-258: aio_do_parse raises, or it completes and
\* leaves files in a directory under output_dir/pdf_name, and the result is
\* built from the artifact of the requested format; the finally block follows
ParseReturns ==
  /\ program = "handler"
  /\ hpc = "parse"
  /\ \/ Return(ExceptionResult(job))
     \/ /\ \E d \in ParseDirs(Get(job.method, "auto")), files \in [Suffixes -> FileStates] :
             /\ tmp' = [tmp EXCEPT !.out = [d |-> d, files |-> files]]
             /\ ret' = CollectResult(job, [d |-> d, files |-> files])
        /\ hpc' = "finally"
  /\ UNCHANGED <<program, caller, job, loop, hist>>
  /\ UNCHANGED appVars

\* process_file, lines 268-271: the finally block on the way out of lines
\* 218-258, after which handler returns the result (line 298)
Finally ==
  /\ program = "handler"
  /\ hpc = "finally"
  /\ hpc' = "done"
  /\ tmp' = Cleaned
  /\ UNCHANGED <<program, caller, job, loop, hist, ret>>
  /\ UNCHANGED appVars

(***************************************************************************)
(* Specifications                                                          *)
(***************************************************************************)
Init ==
  /\ program \in {"app", "handler"}
  /\ pipeline = 0
  /\ constructed = 0
  /\ req = [r \in Reqs |-> NewReq]
  /\ caller = [t \in Callers |-> NewCaller]
  /\ job = NoJob
  /\ hpc = "start"
  /\ loop = "ok"
  /\ tmp = NoTmp
  /\ hist = NoHist
  /\ ret = NoRet

Next ==
  \/ \E r \in Reqs : ParseFileStart(r)
  \/ \E r \in Reqs : WriteUploadChunk(r)
  \/ \E r \in Reqs : WriteUploadEnd(r)
  \/ \E r \in Reqs : ParseFileCheck(r)
  \/ \E r \in Reqs : ParseDocumentStart(r)
  \/ \E r \in Reqs : PredictReturns(r)
  \/ \E r \in Reqs : Normalize(r)
  \/ HandlerCalled
  \/ RunProcessFile
  \/ MakeTempDir
  \/ AcquireFile
  \/ ReadAndParse
  \/ ParseReturns
  \/ Finally

Spec == Init /\ [][Next]_vars

\* the first request of the service, over every result of NormResults
NextNormalize ==
  \/ ParseFileStart(1)
  \/ WriteUploadChunk(1)
  \/ WriteUploadEnd(1)
  \/ ParseFileCheck(1)
  \/ ParseDocumentStart(1)
  \/ PredictReturnsAny(1)
  \/ Normalize(1)

SpecNormalize == Init /\ [][NextNormalize]_vars

\* get_pipeline() called by NumCallers threads of the app process
InitGetPipeline ==
  /\ program = "app"
  /\ pipeline = 0
  /\ constructed = 0
  /\ req = [r \in Reqs |-> NewReq]
  /\ caller = [t \in Callers |-> NewCaller]
  /\ job = NoJob
  /\ hpc = "start"
  /\ loop = "ok"
  /\ tmp = NoTmp
  /\ hist = NoHist
  /\ ret = NoRet

NextGetPipeline ==
  \/ \E t \in Callers : GpCheck(t)
  \/ \E t \in Callers : GpConstruct(t)
  \/ \E t \in Callers : GpReturn(t)

SpecGetPipeline == InitGetPipeline /\ [][NextGetPipeline]_vars

(***************************************************************************)
(* Properties                                                              *)
(***************************************************************************)

\* C1: however many callers enter get_pipeline() at once before the first
\* construction has finished, one handle is constructed and every caller
\* that returns holds that same handle.
C1_SingleConstruction ==
  /\ constructed <= 1
  /\ \A t, u \in Callers :
       caller[t].pc = "done" /\ caller[u].pc = "done" => caller[t].got = caller[u].got

\* C2: the bytes written to the temporary file of an upload never exceed the
\* limit; an upload is refused with 413 exactly at the first chunk that takes
\* the running total over the limit, every stream longer than the limit ends
\* with 413, and the pipeline is never fetched or called for it.
C2_UploadWithinLimit ==
  \A r \in Reqs :
    req[r].kind = "parse_file" =>
      /\ req[r].written <= MAX_FILE_SIZE_BYTES
      /\ req[r].pc = "writing" => req[r].total = req[r].written
      /\ req[r].resp.code = 413 =>
           /\ req[r].written <= MAX_FILE_SIZE_BYTES
           /\ req[r].total > MAX_FILE_SIZE_BYTES
           /\ req[r].total - req[r].written <= chunk_size
           /\ req[r].predicts = 0
      /\ req[r].size > MAX_FILE_SIZE_BYTES =>
           /\ req[r].gets = 0
           /\ req[r].predicts = 0
           /\ req[r].pc = "done" => req[r].resp = HTTPException(413, "File too large")

C2_Witness ==
  \E r \in Reqs :
    /\ req[r].resp.code = 413
    /\ req[r].written > 0
    /\ req[r].written < MAX_FILE_SIZE_BYTES

\* the allow-list of the HTTP path: pdf, jpg, jpeg, png, bmp
HttpAllowList ==
  {<<".", "p", "d", "f">>, <<".", "j", "p", "g">>, <<".", "j", "p", "e", "g">>,
   <<".", "p", "n", "g">>, <<".", "b", "m", "p">>}

\* C3: an upload with an allowed extension whose stream has no bytes is
\* answered 400 'File is empty', and the pipeline is neither fetched (so not
\* constructed) nor called for that request.
C3_EmptyUploadRejected ==
  \A r \in Reqs :
    ( /\ req[r].kind = "parse_file"
      /\ Lower(Splitext(req[r].name)) \in HttpAllowList
      /\ req[r].size = 0 ) =>
      /\ req[r].gets = 0
      /\ req[r].predicts = 0
      /\ req[r].pc = "done" => req[r].resp = HTTPException(400, "File is empty")

C3_Witness ==
  \E r \in Reqs :
    /\ req[r].pc = "done"
    /\ req[r].size = 0
    /\ req[r].read
    /\ req[r].resp = HTTPException(400, "File is empty")

\* the allow-list of the batch path: pdf and the raster image formats
BatchAllowList ==
  {<<"p", "d", "f">>, <<"p", "n", "g">>, <<"j", "p", "e", "g">>, <<"j", "p", "2">>,
   <<"w", "e", "b", "p">>, <<"g", "i", "f">>, <<"b", "m", "p">>, <<"j", "p", "g">>}

\* C4: an upload whose file name has an extension outside the allow-list is
\* refused with no read of its stream, no temporary directory, no byte
\* written and no pipeline call; a job whose resolved extension is outside
\* the allow-list is refused with no decode, no fetch, no input file and no
\* pipeline call.
C4_RejectedBeforeIngestion ==
  /\ \A r \in Reqs :
       (req[r].kind = "parse_file" /\ Lower(Splitext(req[r].name)) \notin HttpAllowList) =>
         /\ req[r].pc = "done"
         /\ req[r].resp.code = 400
         /\ ~req[r].read
         /\ req[r].written = 0
         /\ req[r].dir = "none"
         /\ req[r].gets = 0
         /\ req[r].predicts = 0
  /\ (hpc # "start" /\ job.input = "mapping" /\ ResolveExt(job) \notin BatchAllowList) =>
       /\ hist.decodes = 0
       /\ hist.fetches = 0
       /\ hist.calls = 0
       /\ tmp.input = -1
       /\ hpc = "done" => ret.status # "success"

C4_Witness ==
  /\ hpc = "done"
  /\ job.file_url # NoUrl
  /\ ret.kind = "returned"
  /\ ret.error = "Unsupported file type"
  /\ hist.mkdtemps = 1
  /\ hist.fetches = 0

\* the job's input passes the validation of section 4.5, step 1
ValidJob(j) ==
  /\ j.input = "mapping"
  /\ ~(j.file_base64 \in {Absent, ""} /\ j.file_url = NoUrl)
  /\ j.backend \in {Absent, "pipeline", "vlm-auto-engine", "vlm-http-client",
                    "hybrid-auto-engine", "hybrid-http-client"}
  /\ j.method \in {Absent, "auto", "txt", "ocr"}
  /\ j.return_format \in {Absent, "markdown", "json", "content_list"}

\* C5: once handler(job) has finished for a job that passed validation, the
\* temporary directory made for it no longer exists.
C5_TempDirRemoved ==
  (hpc = "done" /\ ValidJob(job)) => tmp.dir # "live"

\* C6: every job that fails and gets a result mapping gets one whose status
\* is "error" and that carries an error message.
C6_FailureHasErrorStatus ==
  (hpc = "done" /\ ret.kind = "returned" /\ ret.status # "success") =>
    (ret.status = "error" /\ ret.error # Absent)

\* C7: handler(job) never raises; whichever step fails, it returns a result.
C7_NeverRaises ==
  hpc = "done" => ret.kind = "returned"

\* C8: a job whose input mapping has no file source, or whose backend, method
\* or return_format is outside its set, gets {status: "error", error} and
\* nothing else happens: no temporary directory, no file, no fetch, no decode,
\* no pipeline call, no run of process_file.
C8_InvalidJobRejected ==
  (hpc = "done" /\ job.input = "mapping" /\ ~ValidJob(job)) =>
    /\ ret.kind = "returned"
    /\ ret.status = "error"
    /\ ret.error \in {"Missing required parameter: file_base64 or file_url",
                      "Invalid backend", "Invalid method", "Invalid return_format"}
    /\ ret.content = Absent
    /\ tmp = NoTmp
    /\ hist = NoHist

C8_Witness ==
  /\ hpc = "done"
  /\ job.file_url # NoUrl
  /\ job.backend = "pipeline"
  /\ job.method = "txt"
  /\ job.return_format = "bogus"
  /\ ret = ValidationError("Invalid return_format")

\* C9: the bytes a remote fetch puts into the job's input file never exceed
\* the maximum byte budget.
C9_DownloadWithinLimit ==
  (job.file_base64 \in {Absent, ""} /\ hist.fetches > 0) => tmp.input <= MAX_FILE_SIZE_BYTES

\* the artifact of the requested format in the result directory of the
\* job's backend (section 4.5, step 6), as the engine left it
RequestedFormat == IF job.return_format = Absent THEN "markdown" ELSE job.return_format
RequestedMethod == IF job.method = Absent THEN "auto" ELSE job.method
ResultDirOfJob ==
  CASE job.backend \in {Absent, "hybrid-auto-engine", "hybrid-http-client"} ->
         <<"hybrid_", RequestedMethod>>
    [] job.backend \in {"vlm-auto-engine", "vlm-http-client"} -> <<"vlm">>
    [] OTHER -> <<RequestedMethod>>
ArtifactNameOf(fmt) ==
  CASE fmt = "markdown" -> ".md"
    [] fmt = "json" -> "_middle.json"
    [] fmt = "content_list" -> "_content_list.json"
Artifact ==
  IF tmp.out.d = ResultDirOfJob THEN tmp.out.files[ArtifactNameOf(RequestedFormat)] ELSE Missing
FailureMessageOf(fmt) ==
  CASE fmt = "markdown" -> "Failed to generate markdown output"
    [] fmt = "json" -> "Failed to generate JSON output"
    [] fmt = "content_list" -> "Failed to generate content list output"
IsFailureResult ==
  /\ ret.kind = "returned"
  /\ ret.status = "error"
  /\ ret.error = FailureMessageOf(RequestedFormat)
  /\ ret.content = Absent
IsSuccessResult(text) ==
  /\ ret.kind = "returned"
  /\ ret.status = "success"
  /\ ret.content = text
  /\ ret.format = RequestedFormat

\* C10 as stated: after the pipeline call, an absent artifact gives the
\* format's failure result, a present one (a file with a text) the success
\* result with that text.
C10_ArtifactDecidesResult ==
  hpc = "finally" =>
    /\ Artifact = Missing => IsFailureResult
    /\ Artifact \in Texts => IsSuccessResult(Artifact)

\* C10 amended: after the pipeline call, an absent or empty artifact gives
\* the format's failure result, one with a non-empty text the success result
\* with that text and the requested format.
C10_NonEmptyArtifactDecidesResult ==
  hpc = "finally" =>
    /\ Artifact \in {Missing, ""} => IsFailureResult
    /\ Artifact \in Texts \ {""} => IsSuccessResult(Artifact)

\* the content list was requested and is absent, the markdown file is there
C10_Witness ==
  /\ hpc = "finally"
  /\ job.return_format = "content_list"
  /\ tmp.out.d = ResultDirOfJob
  /\ tmp.out.files[".md"] = "T"
  /\ tmp.out.files["_content_list.json"] = Missing
  /\ ret.error = "Failed to generate content list output"

\* C11: in every successful response of POST /parse and POST /parse/file,
\* pages equals the number of page records in result, and markdown is the
\* empty string exactly when the result has no pages or no page yielded a
\* text.
C11_PagesMatchResult ==
  \A r \in Reqs :
    req[r].resp.shape = "success" =>
      /\ req[r].resp.pages = req[r].resp.result
      /\ req[r].resp.markdown = << >> <=>
           \/ req[r].resp.result = 0
           \/ \A i \in 1..Len(req[r].result.pages) :
                ~Extractable(req[r].result.pages[i])

\* C12: while the blocking pipeline call of one request is running, the service
\* can still accept and complete other requests: the event loop is free to
\* run each of them (validation and ingestion of another parse request), and
\* the next request can be accepted; the request that issued the call has
\* not responded.
C12_ServesWhileExtracting ==
  \A r \in Reqs :
    req[r].pc = "predict" =>
      /\ req[r].resp = NoResp
      /\ \A q \in Reqs \ {r} :
           /\ Turn(q)
           /\ (req[q].pc = "new" /\ \A p \in Reqs : p < q => req[p].pc # "new")
                => ENABLED ParseDocumentStart(q)

\* a later upload was ingested and answered while the first request extracts
C12_Witness ==
  /\ req[1].pc = "predict"
  /\ req[2].pc = "done"
  /\ req[2].kind = "parse_file"
  /\ req[2].written > 0
  /\ req[2].resp.code = 413

\* C13: every failed HTTP request is answered with the error envelope
\* {status: "error", message} and the status code 400 for a validation
\* failure, 413 for an oversized upload and 500 otherwise.
C13_FailureHasEnvelope ==
  \A r \in Reqs :
    (req[r].pc = "done" /\ req[r].resp.shape # "success") =>
      /\ req[r].resp.shape = "envelope"
      /\ req[r].resp.code \in {400, 413, 500}
      /\ req[r].resp.code = 413 <=> req[r].total > MAX_FILE_SIZE_BYTES
      /\ req[r].resp.code = 400 <=>
           (req[r].kind = "parse_file" /\ req[r].gets = 0
              /\ req[r].total <= MAX_FILE_SIZE_BYTES)

\* request r got through validation and then the construction of the
\* pipeline, the pipeline call or the conversion of the result raised
ExceptionIn(r) ==
  \/ req[r].gets > 0 /\ req[r].handle = 0
  \/ req[r].predicts > 0 /\ req[r].result = NoResult
  \/ req[r].result # NoResult /\ convert_result(req[r].result) < 0

\* C14: for both endpoints, an exception raised by the construction of the
\* pipeline, the pipeline call, the markdown extraction or the conversion of
\* the result is answered with status code 500, and the service keeps
\* serving: the next request can be accepted.
C14_ExceptionGives500 ==
  \A r \in Reqs :
    (req[r].pc = "done" /\ ExceptionIn(r)) =>
      /\ req[r].resp.code = 500
      /\ \A q \in Reqs :
           (req[q].pc = "new" /\ \A p \in Reqs : p < q => req[p].pc # "new")
             => (ENABLED ParseFileStart(q)) /\ (ENABLED ParseDocumentStart(q))

\* the pipeline call of the first request raised, and the upload that came
\* after it was parsed
C14_Witness ==
  /\ req[1].pc = "done"
  /\ req[1].predicts > 0
  /\ req[1].result = NoResult
  /\ req[1].resp.code = 500
  /\ req[2].kind = "parse_file"
  /\ req[2].resp.shape = "success"

\* C15: once a POST /parse/file request has completed, on whichever path, the
\* temporary directory made for it (with the partly written file of an
\* oversized or empty upload) no longer exists.
C15_UploadDirRemoved ==
  \A r \in Reqs :
    (req[r].kind = "parse_file" /\ req[r].pc = "done") => req[r].dir # "live"

\* an oversized upload was answered after part of it was written, and its
\* directory is gone
C15_Witness ==
  \E r \in Reqs :
    /\ req[r].pc = "done"
    /\ req[r].resp.code = 413
    /\ req[r].written > 0
    /\ req[r].dir = "removed"

\* C16: a POST /parse request whose input is the empty string is rejected at
\* validation with a 400 answer; the pipeline is neither constructed nor
\* invoked for it.
C16_EmptyInputRejected ==
  \A r \in Reqs :
    (req[r].kind = "parse" /\ req[r].name = NoName) =>
      /\ req[r].gets = 0
      /\ req[r].predicts = 0
      /\ req[r].pc = "done" => req[r].resp.code = 400

\* C17: when iterating the result of the pipeline raises in mid-stream, the
\* failure is recovered locally: the request still completes with a success
\* response that carries the empty markdown, not with an error.
C17_IterationFailureRecovered ==
  \A r \in Reqs :
    (req[r].pc = "done" /\ req[r].result.fail > 0) =>
      /\ req[r].resp.shape = "success"
      /\ req[r].resp.markdown = << >>

\* the markdown list collected from the pages of request r
CollectedOf(r) == MarkdownList(req[r].result.pages, Len(req[r].result.pages))

\* request r was answered after the primary merge of its markdown list raised
ManualMergeOf(r) ==
  /\ req[r].pc = "done"
  /\ req[r].result # NoResult
  /\ req[r].result.fail = 0
  /\ CollectedOf(r) # << >>
  /\ req[r].result.primary.raises

\* C18: when the primary merge raises and the manual merge raises as well,
\* the normalization returns the empty markdown but a page count equal to
\* the number of pages iterated.
C18_BothMergesFailKeepsPages ==
  \A r \in Reqs :
    (ManualMergeOf(r) /\ HasBadText(TextParts(CollectedOf(r)))) =>
      /\ req[r].resp.shape = "success"
      /\ req[r].resp.markdown = << >>
      /\ req[r].resp.pages = Len(req[r].result.pages)

\* the text a page carries under markdown_texts or, failing that, under
\* markdown_text; a string entry carries itself
Fragment(page) ==
  IF page.kind = "str" THEN page.markdown_texts
  ELSE IF page.kind # "dict" THEN << >>
  ELSE IF page.markdown_texts \notin {None, << >>} THEN page.markdown_texts
  ELSE IF page.markdown_text \notin {None, << >>} THEN page.markdown_text
  ELSE << >>

IsText(t) == t \notin {<< >>, BadText}

FragmentsOf(pages, kinds) ==
  LET all == [i \in 1..Len(pages) |->
                IF pages[i].kind \in kinds THEN Fragment(pages[i]) ELSE << >>]
  IN  SelectSeq(all, LAMBDA t : t # << >>)

\* C19 (as stated): when the primary merge raises, the manual merge returns a
\* non-empty markdown with the full page count for every result in which a
\* page's markdown entry carries a non-empty text under markdown_texts or
\* markdown_text; the markdown is those fragments, in page order, joined by
\* a blank line.
C19_ManualMergeOfMappings ==
  \A r \in Reqs :
    LET pages == req[r].result.pages
    IN  (/\ ManualMergeOf(r)
         /\ \E i \in 1..Len(pages) :
              pages[i].kind = "dict" /\ IsText(Fragment(pages[i])))
        => /\ req[r].resp.shape = "success"
           /\ req[r].resp.markdown # << >>
           /\ req[r].resp.pages = Len(pages)
           /\ req[r].resp.markdown = Join(FragmentsOf(pages, {"dict"}))

\* C19 (amended): when the primary merge raises and every value found under
\* the two names is a string, the manual merge returns the full page count and
\* the non-empty fragments in page order joined by a blank line, where a
\* mapping gives its markdown_texts or else its markdown_text and a string
\* entry gives itself; the markdown is non-empty when a page carries a text.
C19_ManualMergeJoinsFragments ==
  \A r \in Reqs :
    LET pages == req[r].result.pages
    IN  (/\ ManualMergeOf(r)
         /\ \A i \in 1..Len(pages) : Fragment(pages[i]) # BadText)
        => /\ req[r].resp.shape = "success"
           /\ req[r].resp.pages = Len(pages)
           /\ req[r].resp.markdown = Join(FragmentsOf(pages, {"dict", "str"}))
           /\ (\E i \in 1..Len(pages) : IsText(Fragment(pages[i])))
                => req[r].resp.markdown # << >>

\* two pages were merged by hand: a text under markdown_text, then a string
C19_Witness ==
  \E r \in Reqs :
    /\ ManualMergeOf(r)
    /\ req[r].result.pages = <<PageB, MdStr(<<"S">>)>>
    /\ req[r].resp = Success(<<"B", "\n", "\n", "S">>, 2, 2)

\* C20: one call of handler(job) makes at most one temporary directory and
\* invokes the pipeline at most once, also when the first attempt on the
\* current event loop fails with RuntimeError and the handler falls back to
\* a new loop.
C20_AtMostOneAttempt ==
  /\ hist.mkdtemps <= 1
  /\ hist.calls <= 1

\* no current event loop: the job was processed by the fallback, with one
\* directory and one pipeline call
C20_Witness ==
  /\ hpc = "done"
  /\ loop = "none"
  /\ hist.fallback
  /\ hist.mkdtemps = 1
  /\ hist.calls = 1

\* one step of the service keeps the handle monotonic: a handle that is set
\* stays as it is and nothing is constructed; while it is unset, a request
\* that calls get_pipeline() either constructs the handle it then uses or is
\* answered 500 with the handle still unset
HandleStep ==
  /\ pipeline # 0 => pipeline' = pipeline /\ constructed' = constructed
  /\ pipeline = 0 => \/ pipeline' = 0 /\ constructed' = constructed
                     \/ pipeline' # 0 /\ constructed' = constructed + 1
  /\ \A r \in Reqs :
       req'[r].gets > req[r].gets =>
         IF pipeline # 0
         THEN req'[r].handle = pipeline
         ELSE \/ pipeline' # 0 /\ req'[r].handle = pipeline'
              \/ /\ pipeline' = 0
                 /\ req'[r].handle = 0
                 /\ req'[r].pc = "done"
                 /\ req'[r].resp.code = 500

\* C21: the pipeline handle is monotonic: when the constructor raises inside
\* get_pipeline() the handle stays unset and the next call constructs again;
\* once a construction has succeeded the handle is never unset, replaced or
\* constructed again by later requests, also when their pipeline call fails.
C21_HandleMonotonic == [][HandleStep]_vars

\* the constructor raised for the first request, the second request
\* constructed the handle, and its failed pipeline call left the handle set
C21_Witness ==
  /\ req[1].pc = "done"
  /\ req[1].gets = 1
  /\ req[1].handle = 0
  /\ req[2].pc = "done"
  /\ req[2].handle = 1
  /\ req[2].result = NoResult
  /\ req[2].resp.code = 500
  /\ pipeline = 1
  /\ constructed = 1

====
